---- MODULE Spec2Model ----
(***************************************************************************)
(* Model of stdsimd/arch/detect/os/linux/auxvec.rs: reading the hardware   *)
(* capability words AT_HWCAP / AT_HWCAP2 of the ELF auxiliary vector,      *)
(* first through a dynamically resolved getauxval, then through the file  *)
(* /proc/self/auxv.                                                        *)
(*                                                                         *)
(* The environment (target architecture, byte order, the dynamic symbol   *)
(* table, the file system and what a read delivers) is chosen in Init and *)
(* never changes.  The program is the function auxv(), stepped through    *)
(* its calls, and the function auxv_from_file(path) as the tests call it. *)
(***************************************************************************)
EXTENDS Naturals, Sequences, FiniteSets

VARIABLES
    dual_key,       \* cfg(any(target_arch = "arm", target_arch = "powerpc64"))
    little_endian,  \* native byte order of the target
    ptr_is_null,    \* dlsym(RTLD_DEFAULT, "getauxval") returns null
    ffi_getauxval,  \* the resolved function: key -> word
    fs,             \* path -> [exists, bytes]
    read_err,       \* file.read returns Err
    read_n,         \* bytes one file.read delivers at most (a short read)
    pc,             \* position in auxv(): idle, getauxval_hwcap, getauxval_hwcap2, from_file
    hwcap,          \* auxv(): result of getauxval(AT_HWCAP)
    hwcap2,         \* auxv(): result of getauxval(AT_HWCAP2)
    opened,         \* paths given to File::open during the current call
    fd_pos,         \* offset of the most recent file handle
    nread,          \* bytes the read of the current call stored in raw
    buf,            \* auxv_from_file: the [usize; 64] buffer after the read
    parsed,         \* what auxv_from_buf(&buf) returned in the current call
    result,         \* what the current (or last) call returned
    prev            \* what the call before it returned

env == <<dual_key, little_endian, ptr_is_null, ffi_getauxval, fs, read_err, read_n>>
vars == <<dual_key, little_endian, ptr_is_null, ffi_getauxval, fs, read_err, read_n,
          pc, hwcap, hwcap2, opened, fd_pos, nread, buf, parsed, result, prev>>

(***************************************************************************)
(* Program constants.                                                      *)
(***************************************************************************)
AT_HWCAP == 16
AT_HWCAP2 == 26
\* let mut buf = [0_usize; 64]
BufWords == 64

(***************************************************************************)
(* Bounds of the model.                                                    *)
(***************************************************************************)
\* mem::size_of::<usize>() in bytes; the targets have 4 or 8, the model a
\* narrower word reassembled from its bytes in the same way.
WordSize == 2
\* A file holds at most this many (key, value) pairs.
MaxPairs == 3

ProcSelfAuxv == "/proc/self/auxv"
FixturePath == "test_data/fixture.auxv"
Paths == {ProcSelfAuxv, FixturePath}

(***************************************************************************)
(* Result<T, ()>, and the values a local holds before it is assigned.      *)
(***************************************************************************)
Ok(v) == [ok |-> TRUE, val |-> v]
Err == [ok |-> FALSE]
Unset == [ok |-> FALSE, unset |-> TRUE]

\* struct AuxVec: hwcap2 exists only on the dual-key targets.
AuxVec(h, h2) == IF dual_key THEN [hwcap |-> h, hwcap2 |-> h2] ELSE [hwcap |-> h]

Min(a, b) == IF a <= b THEN a ELSE b

(***************************************************************************)
(* Words and bytes.  A file is a sequence of bytes; the buffer is read as  *)
(* bytes and used as words (mem::transmute(&mut buf)), in native order.    *)
(***************************************************************************)
Reverse(s) == [i \in 1..Len(s) |-> s[Len(s) + 1 - i]]

\* The word whose little-endian bytes are mem[at + k .. at + WordSize].
RECURSIVE LeWord(_, _, _)
LeWord(mem, at, k) ==
    IF k > WordSize THEN 0 ELSE mem[at + k] + 256 * LeWord(mem, at, k + 1)

\* The word whose big-endian bytes are mem[at + k .. at + WordSize], after acc.
RECURSIVE BeWord(_, _, _, _)
BeWord(mem, at, k, acc) ==
    IF k > WordSize THEN acc ELSE BeWord(mem, at, k + 1, 256 * acc + mem[at + k])

\* The usize that the WordSize bytes of mem after offset at are, on this target.
from_ne_bytes(mem, at) ==
    IF little_endian THEN LeWord(mem, at, 1) ELSE BeWord(mem, at, 1, 0)

RECURSIVE ToLeBytes(_, _)
ToLeBytes(w, n) == IF n = 0 THEN <<>> ELSE <<w % 256>> \o ToLeBytes(w \div 256, n - 1)

\* The bytes of a word as a process of byte order le writes them to a file.
WordBytes(w, le) == IF le THEN ToLeBytes(w, WordSize) ELSE Reverse(ToLeBytes(w, WordSize))

RECURSIVE PairsBytes(_, _)
PairsBytes(ps, le) ==
    IF ps = <<>> THEN <<>>
    ELSE WordBytes(Head(ps)[1], le) \o WordBytes(Head(ps)[2], le) \o PairsBytes(Tail(ps), le)

\* let mut buf = [0_usize; 64]
ZeroBuf == [i \in 1..BufWords |-> 0]

\* buf seen through raw: word i is the WordSize bytes of raw after (i-1)*WordSize.
transmute(raw) ==
    [i \in 1..BufWords |-> from_ne_bytes(raw, (i - 1) * WordSize)]

(***************************************************************************)
(* File::open and Read::read.                                              *)
(***************************************************************************)
NoFile == [exists |-> FALSE, bytes |-> <<>>]

\* A handle that goes on at the offset where the handle before it stopped.
File_open_shared(path) ==
    IF fs[path].exists THEN Ok([path |-> path, pos |-> fd_pos]) ELSE Err

\* File::open(file): a fresh handle at offset 0, or an error.
File_open(path) ==
    IF fs[path].exists THEN Ok([path |-> path, pos |-> 0]) ELSE Err

\* file.read(raw): one read call.  It stores n <= raw.len() bytes at the front
\* of raw, leaves the rest of raw as it was (zero), and the count is dropped.
File_read(f, cap) ==
    IF read_err THEN Err
    ELSE LET bytes == fs[f.path].bytes
             left == IF f.pos <= Len(bytes) THEN Len(bytes) - f.pos ELSE 0
             n == Min(Min(read_n, left), cap)
         IN Ok([n |-> n,
                raw |-> [j \in 1..cap |-> IF j <= n THEN bytes[f.pos + j] ELSE 0],
                pos |-> f.pos + n])

(***************************************************************************)
(* auxv_from_buf                                                           *)
(***************************************************************************)
NumChunks == BufWords \div 2
Key(b, i) == b[2 * i - 1]
Val(b, i) == b[2 * i]

\* A scan that runs to the end and keeps the last match.
RECURSIVE ScanSingleLast(_, _)
ScanSingleLast(b, i) ==
    IF i < 1 THEN Err
    ELSE IF Key(b, i) = AT_HWCAP THEN Ok(AuxVec(Val(b, i), 0))
    ELSE ScanSingleLast(b, i - 1)

ScanLast(b, i) == ScanSingleLast(b, NumChunks)

\* Targets with only AT_HWCAP: for el in buf.chunks(2), from chunk i on;
\* return at the first chunk whose key is AT_HWCAP.
RECURSIVE ScanSingle(_, _)
ScanSingle(b, i) ==
    IF i > NumChunks THEN Err
    ELSE IF Key(b, i) = AT_HWCAP THEN Ok(AuxVec(Val(b, i), 0))
    ELSE ScanSingle(b, i + 1)

\* A scan that stops at the first chunk that completes the pair.
RECURSIVE ScanDualFirst(_, _, _, _)
ScanDualFirst(b, i, h, h2) ==
    IF h.ok /\ h2.ok THEN Ok(AuxVec(h.val, h2.val))
    ELSE IF i > NumChunks THEN Err
    ELSE IF Key(b, i) = AT_HWCAP THEN ScanDualFirst(b, i + 1, Ok(Val(b, i)), h2)
    ELSE IF Key(b, i) = AT_HWCAP2 THEN ScanDualFirst(b, i + 1, h, Ok(Val(b, i)))
    ELSE ScanDualFirst(b, i + 1, h, h2)

\* Targets with AT_HWCAP and AT_HWCAP2: the loop over all chunks from chunk i
\* on, with the Options hwcap = h and hwcap2 = h2, then the final match.
RECURSIVE ScanDual(_, _, _, _)
ScanDual(b, i, h, h2) ==
    IF i > NumChunks
    THEN (IF h.ok /\ h2.ok THEN Ok(AuxVec(h.val, h2.val)) ELSE Err)
    ELSE IF Key(b, i) = AT_HWCAP THEN ScanDual(b, i + 1, Ok(Val(b, i)), h2)
    ELSE IF Key(b, i) = AT_HWCAP2 THEN ScanDual(b, i + 1, h, Ok(Val(b, i)))
    ELSE ScanDual(b, i + 1, h, h2)

auxv_from_buf(b) ==
    IF dual_key THEN ScanDual(b, 1, Err, Err) ELSE ScanSingle(b, 1)

(***************************************************************************)
(* auxv_from_file: what the call returns and what it leaves behind.        *)
(***************************************************************************)
auxv_from_file(file) ==
    LET f == File_open(file) IN
    IF ~f.ok
    THEN [ret |-> Err, opened |-> <<file>>, pos |-> fd_pos, n |-> 0,
          buf |-> ZeroBuf, parsed |-> Unset]
    ELSE LET rd == File_read(f.val, BufWords * WordSize) IN
         IF ~rd.ok
         THEN [ret |-> Err, opened |-> <<file>>, pos |-> f.val.pos, n |-> 0,
               buf |-> ZeroBuf, parsed |-> Unset]
         ELSE LET b == transmute(rd.val.raw)
                  r == auxv_from_buf(b)
              IN [ret |-> r, opened |-> <<file>>, pos |-> rd.val.pos, n |-> rd.val.n,
                  buf |-> b, parsed |-> r]

(***************************************************************************)
(* getauxval                                                               *)
(***************************************************************************)
\* A resolver that passes AT_HWCAP whatever the key.
getauxval_fixed_key(key) ==
    IF ptr_is_null THEN Err ELSE Ok(ffi_getauxval[AT_HWCAP])

getauxval(key) ==
    IF ptr_is_null THEN Err ELSE Ok(ffi_getauxval[key])

(***************************************************************************)
(* Initial states: the environments.                                       *)
(***************************************************************************)
FilePairs(keys, vals, most) ==
    UNION {[1..n -> keys \X vals] : n \in 0..most}

InitLocals ==
    /\ pc = "idle"
    /\ hwcap = Unset
    /\ hwcap2 = Unset
    /\ opened = <<>>
    /\ fd_pos = 0
    /\ nread = 0
    /\ parsed = Unset
    /\ result = Unset
    /\ prev = Unset

\* The file at path is absent, or holds pairs over keys and vals; a read fails,
\* or delivers any number of its bytes.
InitFile(path, keys, vals, most) ==
    /\ little_endian \in BOOLEAN
    /\ \E present \in BOOLEAN :
         IF present
         THEN \E ps \in FilePairs(keys, vals, most) :
                 fs = [p \in Paths |->
                          IF p = path
                          THEN [exists |-> TRUE, bytes |-> PairsBytes(ps, little_endian)]
                          ELSE NoFile]
         ELSE fs = [p \in Paths |-> NoFile]
    /\ read_err \in (IF fs[path].exists THEN BOOLEAN ELSE {FALSE})
    /\ read_n \in (IF read_err THEN {0} ELSE 0..Len(fs[path].bytes))

ResolverVals == {0, 5, 7}

\* getauxval is not linked, or returns a word for each key (0: not found).
InitResolver ==
    /\ ptr_is_null \in BOOLEAN
    /\ IF ptr_is_null
       THEN ffi_getauxval = [k \in {AT_HWCAP, AT_HWCAP2} |-> 0]
       ELSE \E v \in ResolverVals, v2 \in (IF dual_key THEN ResolverVals ELSE {0}) :
               ffi_getauxval = [k \in {AT_HWCAP, AT_HWCAP2} |-> IF k = AT_HWCAP THEN v ELSE v2]

Init ==
    /\ dual_key \in BOOLEAN
    /\ InitResolver
    /\ InitFile(ProcSelfAuxv, {AT_HWCAP, AT_HWCAP2}, {0, 5}, MaxPairs - 1)
    /\ InitLocals
    /\ buf = ZeroBuf

(***************************************************************************)
(* auxv()                                                                  *)
(***************************************************************************)
\* A caller calls auxv().
auxv_enter ==
    /\ pc = "idle"
    /\ pc' = "getauxval_hwcap"
    /\ prev' = result
    /\ hwcap' = Unset
    /\ hwcap2' = Unset
    /\ opened' = <<>>
    /\ nread' = 0
    /\ buf' = ZeroBuf
    /\ parsed' = Unset
    /\ result' = Unset
    /\ UNCHANGED <<env, fd_pos>>

\* return Ok(AuxVec { .. }) from the getauxval branch.
ReturnResolved(h, h2) ==
    /\ result' = Ok(AuxVec(h, h2))
    /\ pc' = "idle"

\* The step without the test hwcap != 0 of the single-key targets.
auxv_getauxval_hwcap_unchecked ==
    /\ pc = "getauxval_hwcap"
    /\ hwcap' = getauxval(AT_HWCAP)
    /\ IF ~hwcap'.ok THEN pc' = "from_file" /\ result' = result
       ELSE IF dual_key THEN pc' = "getauxval_hwcap2" /\ result' = result
       ELSE ReturnResolved(hwcap'.val, 0)
    /\ UNCHANGED <<env, hwcap2, opened, fd_pos, nread, buf, parsed, prev>>

\* if let Ok(hwcap) = getauxval(AT_HWCAP) { .. }
auxv_getauxval_hwcap ==
    /\ pc = "getauxval_hwcap"
    /\ hwcap' = getauxval(AT_HWCAP)
    /\ IF ~hwcap'.ok THEN pc' = "from_file" /\ result' = result
       ELSE IF dual_key THEN pc' = "getauxval_hwcap2" /\ result' = result
       ELSE IF hwcap'.val # 0 THEN ReturnResolved(hwcap'.val, 0)
       ELSE pc' = "from_file" /\ result' = result
    /\ UNCHANGED <<env, hwcap2, opened, fd_pos, nread, buf, parsed, prev>>

\* if let Ok(hwcap2) = getauxval(AT_HWCAP2) { if hwcap != 0 && hwcap2 != 0 { .. } }
auxv_getauxval_hwcap2 ==
    /\ pc = "getauxval_hwcap2"
    /\ hwcap2' = getauxval(AT_HWCAP2)
    /\ IF hwcap2'.ok /\ hwcap.val # 0 /\ hwcap2'.val # 0
       THEN ReturnResolved(hwcap.val, hwcap2'.val)
       ELSE pc' = "from_file" /\ result' = result
    /\ UNCHANGED <<env, hwcap, opened, fd_pos, nread, buf, parsed, prev>>

\* auxv_from_file("/proc/self/auxv"), the value auxv() returns.
auxv_fallback ==
    /\ pc = "from_file"
    /\ \E r \in {auxv_from_file(ProcSelfAuxv)} :
         /\ result' = r.ret
         /\ opened' = opened \o r.opened
         /\ fd_pos' = r.pos
         /\ nread' = r.n
         /\ buf' = r.buf
         /\ parsed' = r.parsed
    /\ pc' = "idle"
    /\ UNCHANGED <<env, hwcap, hwcap2, prev>>

Next ==
    \/ auxv_enter
    \/ auxv_getauxval_hwcap
    \/ auxv_getauxval_hwcap2
    \/ auxv_fallback

Spec == Init /\ [][Next]_vars

\* The environments of Init on a little-endian target in which a read that
\* succeeds delivers the whole file and getauxval returns 0 or 5.
FairInit ==
    /\ Init
    /\ little_endian
    /\ read_err \/ read_n = Len(fs[ProcSelfAuxv].bytes)
    /\ \A k \in {AT_HWCAP, AT_HWCAP2} : ffi_getauxval[k] \in {0, 5}

\* auxv() is straight-line code: a call that has begun runs to its return.
FairSpec == FairInit /\ [][Next]_vars /\ WF_vars(Next)

(***************************************************************************)
(* auxv_from_file(path) called directly, as the tests do on fixtures.      *)
(***************************************************************************)
\* A key that is neither capability key and whose low-order byte is AT_HWCAP2.
TornKey == AT_HWCAP2 + 256

InitFileReader ==
    /\ dual_key \in BOOLEAN
    /\ ptr_is_null = TRUE
    /\ ffi_getauxval = [k \in {AT_HWCAP, AT_HWCAP2} |-> 0]
    /\ InitFile(FixturePath, {AT_HWCAP, AT_HWCAP2, TornKey}, {0, 5}, MaxPairs)
    /\ InitLocals
    /\ buf = ZeroBuf

test_auxv_from_file(path) ==
    /\ pc = "idle"
    /\ \E r \in {auxv_from_file(path)} :
         /\ result' = r.ret
         /\ opened' = r.opened
         /\ fd_pos' = r.pos
         /\ nread' = r.n
         /\ buf' = r.buf
         /\ parsed' = r.parsed
    /\ UNCHANGED <<env, pc, hwcap, hwcap2, prev>>

\* A test on the fixture, which the file system holds or not.
test_fixture == test_auxv_from_file(FixturePath)

NextFile == test_fixture

SpecFile == InitFileReader /\ [][NextFile]_vars

(***************************************************************************)
(* auxv_from_buf(&buf) applied to a buffer of the caller's.                *)
(***************************************************************************)
\* A key that is neither capability key.
OtherKey == 3

\* The buffer that holds the pairs ps in the chunks after chunk off, 0 elsewhere.
BufOf(ps, off) ==
    [i \in 1..BufWords |->
        IF 2 * off < i /\ i <= 2 * (off + Len(ps))
        THEN ps[(i + 1) \div 2 - off][2 - (i % 2)]
        ELSE 0]

\* Up to MaxPairs pairs, at the front of the buffer or in its last chunks.
InitBuf ==
    /\ dual_key \in BOOLEAN
    /\ little_endian = TRUE
    /\ ptr_is_null = TRUE
    /\ ffi_getauxval = [k \in {AT_HWCAP, AT_HWCAP2} |-> 0]
    /\ fs = [p \in Paths |-> NoFile]
    /\ read_err = FALSE
    /\ read_n = 0
    /\ InitLocals
    /\ \E ps \in FilePairs({AT_HWCAP, AT_HWCAP2, OtherKey}, {0, 5, 7}, MaxPairs) :
          \E off \in {0, NumChunks - Len(ps)} : buf = BufOf(ps, off)

test_auxv_from_buf ==
    /\ pc = "idle"
    /\ parsed' = auxv_from_buf(buf)
    /\ result' = parsed'
    /\ UNCHANGED <<env, pc, hwcap, hwcap2, opened, fd_pos, nread, buf, prev>>

NextBuf == test_auxv_from_buf

SpecBuf == InitBuf /\ [][NextBuf]_vars

(***************************************************************************)
(* What the claims speak of.                                               *)
(***************************************************************************)
\* A call has returned and no other has begun.
Returned == pc = "idle" /\ result # Unset

\* auxv_from_buf(&buf) ran in the last call.
ParserRan == Returned /\ parsed # Unset

Chunks == 1..NumChunks

\* The resolver's answers are trustworthy: found, nonzero for every key asked.
Trusted ==
    /\ ~ptr_is_null
    /\ ffi_getauxval[AT_HWCAP] # 0
    /\ (dual_key => ffi_getauxval[AT_HWCAP2] # 0)

\* The (key, value) pairs a file holds, as far as the buffer reaches.
FilePairIdx(bytes) == 1..Min(Len(bytes) \div (2 * WordSize), NumChunks)
FileKey(bytes, i) == from_ne_bytes(bytes, (2 * i - 2) * WordSize)
FileVal(bytes, i) == from_ne_bytes(bytes, (2 * i - 1) * WordSize)
FileHasKey(bytes, k) == \E i \in FilePairIdx(bytes) : FileKey(bytes, i) = k
FileLastVal(bytes, k) ==
    LET i == CHOOSE i \in FilePairIdx(bytes) :
                 /\ FileKey(bytes, i) = k
                 /\ \A j \in FilePairIdx(bytes) : j > i => FileKey(bytes, j) # k
    IN FileVal(bytes, i)

\* The last call opened path p and its read delivered the whole file.
ReadWhole(p) ==
    /\ fs[p].exists
    /\ ~read_err
    /\ nread = Min(Len(fs[p].bytes), BufWords * WordSize)

\* buf with every pair zeroed that the read did not deliver in full.
WholePairsOnly(b, n) ==
    [i \in 1..BufWords |-> IF ((i + 1) \div 2) * 2 * WordSize <= n THEN b[i] ELSE 0]

(***************************************************************************)
(* The claims.                                                             *)
(***************************************************************************)

\* The last call read no file, or its read delivered the whole file: no short
\* read has a part in what it returned.
NoShortRead == opened = <<>> \/ ReadWhole(opened[1])

\* C1: on the dual-key targets every Ok(AuxVec) that auxv() returns has
\* hwcap != 0 and hwcap2 != 0, whichever tier produced it.  (Stated for the
\* calls without a short read.)
C1_BothNonzero ==
    (dual_key /\ Returned /\ result.ok /\ NoShortRead)
        => (result.val.hwcap # 0 /\ result.val.hwcap2 # 0)

\* C2: on the single-key targets auxv_from_buf returns Err for every buffer
\* in which key 16 never appears or appears only with value 0.
C2_ZeroOrAbsentFails ==
    (~dual_key /\ ParserRan
       /\ \A i \in Chunks : Key(buf, i) = AT_HWCAP => Val(buf, i) = 0)
        => ~parsed.ok

\* C3 as stated: on the single-key targets, for every pair of the buffer with
\* key 16 and a nonzero value v, auxv_from_buf returns Ok with hwcap = v.
\* (Stated for the buffers in which key 16 never carries the value 0.)
C3_AnyPosition ==
    (~dual_key /\ ParserRan
       /\ \A i \in Chunks : Key(buf, i) = AT_HWCAP => Val(buf, i) # 0)
        => \A i \in Chunks :
              (Key(buf, i) = AT_HWCAP /\ Val(buf, i) # 0)
                  => parsed = Ok([hwcap |-> Val(buf, i)])

\* C3 amended: on the single-key targets, when the first pair of the buffer
\* whose key is 16 carries a nonzero value v, auxv_from_buf returns Ok with
\* hwcap = v.
C3_FirstMatch ==
    (~dual_key /\ ParserRan)
        => \A i \in Chunks :
              (/\ Key(buf, i) = AT_HWCAP
               /\ Val(buf, i) # 0
               /\ \A j \in 1..(i - 1) : Key(buf, j) # AT_HWCAP)
                  => parsed = Ok([hwcap |-> Val(buf, i)])

\* C3 witness: the parser ran on a buffer whose first key 16 is not the first
\* pair, has a nonzero value, and is followed by a key 16 with another value.
C3_Witness ==
    /\ ~dual_key
    /\ ParserRan
    /\ parsed.ok
    /\ \E i \in Chunks, j \in Chunks :
          /\ 1 < i /\ i < j
          /\ Key(buf, i) = AT_HWCAP /\ Val(buf, i) # 0
          /\ Key(buf, 1) # AT_HWCAP
          /\ Key(buf, j) = AT_HWCAP /\ Val(buf, j) # Val(buf, i)

\* C4: on the dual-key targets a buffer, or a file given to auxv_from_file,
\* that holds key 16 with a nonzero value and never key 26 yields Err.
C4_NoPartialDetection ==
    dual_key =>
      /\ (ParserRan
            /\ (\E i \in Chunks : Key(buf, i) = AT_HWCAP /\ Val(buf, i) # 0)
            /\ (\A i \in Chunks : Key(buf, i) # AT_HWCAP2))
           => ~parsed.ok
      /\ (Returned /\ opened # <<>>
            /\ (\E i \in FilePairIdx(fs[opened[1]].bytes) :
                   /\ FileKey(fs[opened[1]].bytes, i) = AT_HWCAP
                   /\ FileVal(fs[opened[1]].bytes, i) # 0)
            /\ ~FileHasKey(fs[opened[1]].bytes, AT_HWCAP2))
           => ~result.ok

\* C5: when getauxval resolves and returns nonzero for AT_HWCAP (and, dual-key,
\* for AT_HWCAP2), auxv() returns Ok with exactly those values and no file is
\* opened at any point of the call.
C5_ResolverFirst ==
    Trusted =>
      /\ opened = <<>>
      /\ Returned =>
           result = Ok(IF dual_key
                       THEN [hwcap |-> ffi_getauxval[AT_HWCAP],
                             hwcap2 |-> ffi_getauxval[AT_HWCAP2]]
                       ELSE [hwcap |-> ffi_getauxval[AT_HWCAP]])

\* C5 witness: a dual-key call returned the resolver's two distinct values
\* while /proc/self/auxv exists and would have given a different answer.
C5_Witness ==
    /\ Trusted /\ dual_key /\ Returned
    /\ ffi_getauxval[AT_HWCAP] # ffi_getauxval[AT_HWCAP2]
    /\ fs[ProcSelfAuxv].exists /\ ~read_err
    /\ auxv_from_file(ProcSelfAuxv).ret.ok
    /\ auxv_from_file(ProcSelfAuxv).ret # result

\* What a call that fell back to the file has done: opened /proc/self/auxv,
\* once, and returned what auxv_from_file returns for it.
FileOutcome ==
    /\ opened = <<ProcSelfAuxv>>
    /\ result = auxv_from_file(ProcSelfAuxv).ret

\* C6: in every call in which the lookup fails or the resolver's answer is not
\* trustworthy, the file reader is invoked on /proc/self/auxv and the call
\* ends with exactly the file reader's result.
C6_FallbackRuns ==
    /\ []((~Trusted /\ Returned) => FileOutcome)
    /\ ((~Trusted /\ pc # "idle") ~> (Returned /\ opened = <<ProcSelfAuxv>>))

\* C6 witness: the resolver is linked, answers nonzero for AT_HWCAP and zero
\* for AT_HWCAP2, and the call returned the file's Ok.
C6_Witness ==
    /\ dual_key /\ ~ptr_is_null
    /\ ffi_getauxval[AT_HWCAP] # 0 /\ ffi_getauxval[AT_HWCAP2] = 0
    /\ Returned /\ result.ok /\ result.val.hwcap # 0 /\ opened = <<ProcSelfAuxv>>

\* The resolver and the file report the same vector: the file is read whole
\* and getauxval returns for each key the file's value, or 0 without the key.
ResolverAgreesWithFile ==
    /\ fs[ProcSelfAuxv].exists /\ ~read_err
    /\ read_n = Len(fs[ProcSelfAuxv].bytes)
    /\ \A k \in {AT_HWCAP, AT_HWCAP2} :
          ffi_getauxval[k] = IF FileHasKey(fs[ProcSelfAuxv].bytes, k)
                             THEN FileLastVal(fs[ProcSelfAuxv].bytes, k)
                             ELSE 0

\* C7: whenever getauxval is linked and yields a value for AT_HWCAP, auxv()
\* returns Ok with hwcap equal to it; the same for AT_HWCAP2 and hwcap2 on the
\* dual-key targets.
C7_GetauxvalValueReturned ==
    (Returned /\ ~ptr_is_null /\ ffi_getauxval[AT_HWCAP] # 0 /\ ResolverAgreesWithFile)
        => /\ result.ok
           /\ result.val.hwcap = ffi_getauxval[AT_HWCAP]
           /\ (dual_key /\ ffi_getauxval[AT_HWCAP2] # 0)
                 => result.val.hwcap2 = ffi_getauxval[AT_HWCAP2]

\* C8: in a fixed environment two consecutive calls of auxv() return equal
\* results.
C8_Idempotent ==
    (Returned /\ prev # Unset) => result = prev

\* C8 witness: the second of two calls read a nonempty file and returned Ok.
C8_Witness ==
    /\ Returned /\ prev # Unset
    /\ result.ok /\ opened = <<ProcSelfAuxv>> /\ nread > 0

C10_ShortReadHarmless ==
    (ParserRan /\ opened # <<>>
       /\ \A i \in FilePairIdx(fs[opened[1]].bytes) : FileVal(fs[opened[1]].bytes, i) # 0)
        => parsed = auxv_from_buf(WholePairsOnly(buf, nread))

====
